---- MODULE Spec2Model ----
(***************************************************************************)
(* Model of the pairwise summation engine of clustertools                  *)
(* (src/clustertools/analysis/functions.py): the numba kernels             *)
(* _potential_energy, _potential_energy_parallel and                       *)
(* _weighted_inverse_distance_sum, and their callers energies and          *)
(* virial_radius_inverse_distance.                                         *)
(*                                                                         *)
(* Numbers.  Positions are drawn from a set of points whose pairwise       *)
(* distances are integers, so that sqrt is exact.  A float that holds a    *)
(* potential or an inverse-distance sum is modelled as an exact rational   *)
(* in units of 1/Scale; Scale is a common multiple of every distance that  *)
(* can occur, so every quotient m2/r is an integer number of units.        *)
(* Floating-point rounding is not modelled.  Array indices are the         *)
(* 0-based indices of the source; row i of an array a is a[i + 1].         *)
(*                                                                         *)
(* The centre finder (find_centre, find_centre_of_density) is modelled     *)
(* with exact rationals <<n, d>>.  Its cluster arrays hold one row per     *)
(* group of identical stars together with the number cnt of stars in the   *)
(* group, so that a sphere can hold more than 100 stars: a sum over stars  *)
(* is the sum over rows of cnt times the row's term, and an elementwise     *)
(* operation acts on the row.  The radius rlim is held as its square       *)
(* rlim2 (rlim and rmin are not negative), so that no square root is       *)
(* taken; 0.8 is the rational 4/5.                                         *)
(***************************************************************************)
EXTENDS Integers, Sequences, FiniteSets, Bags, TLC

\* Largest number of particles in the cluster.
MaxN == 3
\* Number of worker threads that numba.prange distributes the outer loop over.
NumThreads == 2

\* Candidate positions (x, y, z).  Pairwise distances are 5, 10, 12, 13;
\* the last point coincides with the first one when projected (z ignored).
Points == <<(<<0, 0, 0>>), (<<3, 4, 0>>), (<<-3, -4, 0>>), (<<0, 0, 12>>)>>
\* Candidate masses; a mass may be 0.
Masses == {0, 1, 2}
\* A common multiple of the distances: the unit of a quotient m2/r is 1/Scale.
Scale == 5 * 12 * 13

VARIABLES
    cluster,       \* the StarCluster: arrays x, y, z, m and ntot
    call,          \* the running call: function name and keyword arguments
    pc,            \* position in the call
    x,             \* the (N, 4) array handed to the kernel
    it,            \* sequential kernels: number of the next loop iteration
    pot,           \* per-particle accumulator of the potential kernels
    weighted_sum,  \* accumulator of _weighted_inverse_distance_sum
    partial_sum,   \* virial_radius_inverse_distance: partial_sum
    visited,       \* bag of the pairs (i, j) the kernel body was run for
    printed,       \* the tuples (i, j, r) written by print
    wk,            \* parallel kernel: per worker its position, phase, register
    writers,       \* parallel kernel: for each index of pot, the workers that stored to it
    epot,          \* energies: the returned pot
    r_v,           \* virial_radius_inverse_distance: the returned r_v
    fc,            \* centre finding: the running call and its arguments
    fpc,           \* centre finding: position in the call
    loc,           \* centre finding: the local variables of the call
    steps,         \* centre finding: one record per iteration of the loop
    ret,           \* centre finding: the returned centre
    first,         \* centre finding: the centre returned by the first call
    indx           \* the caller's boolean array handed over as indx=

\* The variables of the pairwise summation engine and of the centre finder.
pairVars == <<call, pc, x, it, pot, weighted_sum, partial_sum, visited,
              printed, wk, writers, epot, r_v>>
centreVars == <<fc, fpc, loc, steps, ret, first, indx>>

vars == <<cluster, call, pc, x, it, pot, weighted_sum, partial_sum, visited,
          printed, wk, writers, epot, r_v, fc, fpc, loc, steps, ret, first,
          indx>>

----------------------------------------------------------------------------
\* Floats that may be non-finite: k is "fin" (value v units), "inf" (sign v)
\* or "nan".
Fin(v) == [k |-> "fin", v |-> v]
Inf(s) == [k |-> "inf", v |-> s]
NaN == [k |-> "nan", v |-> 0]

Sign(a) == IF a > 0 THEN 1 ELSE IF a < 0 THEN -1 ELSE 0

\* numpy true division of two finite floats: x/0 is +-inf, 0/0 is nan.
NpDivide(a, b) ==
    IF b = 0 THEN (IF a = 0 THEN NaN ELSE Inf(Sign(a)))
    ELSE Fin((a * Sign(b)) \div (b * Sign(b)))

\* Sum of two floats.
NpAdd(p, q) ==
    IF p.k = "nan" \/ q.k = "nan" THEN NaN
    ELSE IF p.k = "inf" /\ q.k = "inf" THEN (IF p.v = q.v THEN p ELSE NaN)
    ELSE IF p.k = "inf" THEN p
    ELSE IF q.k = "inf" THEN q
    ELSE Fin(p.v + q.v)

RECURSIVE NpSum(_)
NpSum(s) == IF s = <<>> THEN Fin(0) ELSE NpAdd(Head(s), NpSum(Tail(s)))

RECURSIVE SeqSum(_)
SeqSum(s) == IF s = <<>> THEN 0 ELSE Head(s) + SeqSum(Tail(s))

\* Square root, exact on the perfect squares that occur.
Sqrt(s) == CHOOSE r \in 0..s : r * r = s

\* util.recipes.distance: Euclidean distance of two rows (x, y, z, m).
distance(p, q) ==
    LET dx == q[1] - p[1]
        dy == q[2] - p[2]
        dz == q[3] - p[3]
    IN  Sqrt(dx * dx + dy * dy + dz * dz)

\* grav = _get_grav(cluster): the gravitational constant in the cluster's
\* units, a positive factor; any value other than 1 shows its use.
grav == 2

----------------------------------------------------------------------------
\* Python range(a, b) as a sequence.
range(a, b) == [k \in 1..(IF b > a THEN b - a ELSE 0) |-> a + k - 1]

\* [0.0] * n
Zeros(n) == [k \in 1..n |-> 0]

OuterRangeShort(n) == range(0, n - 2)
\* for i in range(len(cluster) - 1)
OuterRange(n) == range(0, n - 1)

InnerRangeFromI(i, n) == range(i, n)
\* for j in range(i + 1, len(cluster))
InnerRange(i, n) == range(i + 1, n)

\* The iterations (i, j) of the inner loop for one value of i, in order.
InnerPairs(i, n) == [k \in DOMAIN InnerRange(i, n) |-> <<i, InnerRange(i, n)[k]>>]

RECURSIVE Nest(_, _)
Nest(outer, n) ==
    IF outer = <<>> THEN <<>>
    ELSE InnerPairs(Head(outer), n) \o Nest(Tail(outer), n)

RECURSIVE NestFromI(_, _)
NestFromI(outer, n) ==
    IF outer = <<>> THEN <<>>
    ELSE [k \in DOMAIN range(Head(outer), n) |->
             <<Head(outer), range(Head(outer), n)[k]>>]
         \o NestFromI(Tail(outer), n)

LoopPairsAll(n) == NestFromI(range(0, n), n)
\* The iterations (i, j) of the nested loops of the sequential kernels, in order.
LoopPairs(n) == Nest(OuterRange(n), n)

\* LoopPairs, tabulated for the array lengths that occur.
LoopTable == [n \in 0..MaxN |-> LoopPairs(n)]

\* m2 = cluster[i, 3] * cluster[j, 3]
M2(a, i, j) == a[i + 1][4] * a[j + 1][4]

\* r = distance(cluster[i], cluster[j])
R(a, i, j) == distance(a[i + 1], a[j + 1])

\* m2 / r in units of 1/Scale (r # 0).
Quot(a, i, j) == (M2(a, i, j) * Scale) \div R(a, i, j)

AddPairOnlyI(p, a, i, j) == [p EXCEPT ![i + 1] = @ - Quot(a, i, j)]
\* pot[i] += -m2 / r ; pot[j] += -m2 / r
AddPair(p, a, i, j) ==
    [p EXCEPT ![i + 1] = @ - Quot(a, i, j), ![j + 1] = @ - Quot(a, i, j)]

RECURSIVE PotAfter(_, _, _)
PotAfter(p, a, pairs) ==
    IF pairs = <<>> THEN p
    ELSE PotAfter(AddPair(p, a, Head(pairs)[1], Head(pairs)[2]), a, Tail(pairs))

\* The list _potential_energy returns for an array a without coincident rows.
SequentialPot(a) == PotAfter(Zeros(Len(a)), a, LoopPairs(Len(a)))

----------------------------------------------------------------------------
\* Exact rationals <<n, d>> with d > 0, in lowest terms; <<0, 0>> is nan.
Abs(a) == IF a < 0 THEN 0 - a ELSE a

RECURSIVE Gcd(_, _)
Gcd(a, b) == IF b = 0 THEN a ELSE Gcd(b, a % b)

Norm(n, d) ==
    LET g == Gcd(Abs(n), Abs(d))
    IN  IF d < 0 THEN <<(0 - n) \div g, (0 - d) \div g>>
        ELSE <<n \div g, d \div g>>

Q(n) == <<n, 1>>
QNaN == <<0, 0>>
\* Sum and difference over the least common denominator.
QAdd(p, q) ==
    LET g == Gcd(p[2], q[2])
    IN  Norm(p[1] * (q[2] \div g) + q[1] * (p[2] \div g), (p[2] \div g) * q[2])
QSub(p, q) == QAdd(p, <<0 - q[1], q[2]>>)
QMul(p, q) == Norm(p[1] * q[1], p[2] * q[2])
\* numpy division: x / 0 is not finite.
QDiv(p, q) == IF q[1] = 0 THEN QNaN ELSE Norm(p[1] * q[2], p[2] * q[1])
\* p < q, by integer parts and then by the fractional parts (no products, so
\* that large numerators and denominators do not overflow).
RECURSIVE QLess(_, _)
QLess(p, q) ==
    LET ip == p[1] \div p[2]
        iq == q[1] \div q[2]
        rp == p[1] % p[2]
        rq == q[1] % q[2]
    IN  IF ip # iq THEN ip < iq
        ELSE IF rq = 0 THEN FALSE
        ELSE IF rp = 0 THEN TRUE
        ELSE QLess(<<q[2], rq>>, <<p[2], rp>>)
QFinite(p) == p[2] # 0

RECURSIVE QSum(_)
QSum(s) == IF s = <<>> THEN Q(0) ELSE QAdd(Head(s), QSum(Tail(s)))

\* Elementwise a - c and a + c on sequences of rationals.
QSubAll(a, c) == [k \in DOMAIN a |-> QSub(a[k], c)]
QVecAdd(u, v) == [k \in DOMAIN u |-> QAdd(u[k], v[k])]

\* The names of the six coordinate arrays, in the order of a centre
\* (x, y, z, vx, vy, vz).
Coords == <<"x", "y", "z", "vx", "vy", "vz">>

----------------------------------------------------------------------------
\* The clusters of n particles: every choice of masses, and every choice of
\* positions that takes the candidate points in order (a point may repeat, so
\* that particles coincide).
Clusters(n) ==
    { [x |-> [k \in 1..n |-> Points[f[k]][1]],
       y |-> [k \in 1..n |-> Points[f[k]][2]],
       z |-> [k \in 1..n |-> Points[f[k]][3]],
       m |-> [k \in 1..n |-> g[k]],
       ntot |-> n] :
      f \in {h \in [1..n -> DOMAIN Points] :
                \A k \in 1..(n - 1) : h[k] <= h[k + 1]},
      g \in [1..n -> Masses] }

\* i_d=None; the stars have the ids 1 .. ntot.
NoStar == 0

NoCall == [fn |-> "none", specific |-> FALSE, full |-> FALSE,
           projected |-> FALSE, parallel |-> FALSE, i_d |-> NoStar]

\* No centre-finding call is running.
NoCentreCall == [fn |-> "none"]
NoLocals == [n |-> 0]
\* No array was handed over as indx=: the keyword is left at None.
NoArray == [given |-> FALSE, v |-> <<>>]

IdleWorkers == [w \in 1..NumThreads |-> [k |-> 1, phase |-> "load_i", reg |-> 0]]

Init ==
    /\ cluster \in UNION {Clusters(n) : n \in 0..MaxN}
    /\ call = NoCall
    /\ pc = "idle"
    /\ x = <<>>
    /\ it = 1
    /\ pot = <<>>
    /\ weighted_sum = 0
    /\ partial_sum = Fin(0)
    /\ visited = EmptyBag
    /\ printed = {}
    /\ wk = IdleWorkers
    /\ writers = <<>>
    /\ epot = <<>>
    /\ r_v = [k |-> "none", num |-> 0, den |-> 1]
    /\ fc = NoCentreCall
    /\ fpc = "idle"
    /\ loc = NoLocals
    /\ steps = <<>>
    /\ ret = <<>>
    /\ first = <<>>
    /\ indx = NoArray

\* np.array([cluster.x, cluster.y, cluster.z or zeros, cluster.m]).T
KernelInput(c, projected) ==
    [k \in 1..Len(c.x) |->
        <<c.x[k], c.y[k], IF projected THEN 0 ELSE c.z[k], c.m[k]>>]

\* The kernel a call runs: energies reaches a kernel with i_d=None and
\* full=True only.
Kernel ==
    IF call.fn = "energies" /\ call.full /\ call.i_d = NoStar
    THEN (IF call.parallel THEN "_potential_energy_parallel" ELSE "_potential_energy")
    ELSE IF call.fn = "virial_radius_inverse_distance" /\ call.full
    THEN "_weighted_inverse_distance_sum"
    ELSE "none"

\* State of the kernels at entry, for an input array a.
EnterKernel(a) ==
    /\ x' = a
    /\ it' = 1
    /\ pot' = Zeros(Len(a))
    /\ weighted_sum' = 0
    /\ visited' = EmptyBag
    /\ printed' = {}
    /\ wk' = IdleWorkers
    /\ writers' = [k \in 1..Len(a) |-> {}]

----------------------------------------------------------------------------
\* energies(cluster, specific, i_d=None, full=True, projected, parallel), with
\* the cluster already in the 'cluster' origin: builds x and enters the kernel.
energies(specific, projected, parallel) ==
    /\ pc = "idle"
    /\ call' = [fn |-> "energies", specific |-> specific, full |-> TRUE,
                projected |-> projected, parallel |-> parallel,
                i_d |-> NoStar]
    /\ EnterKernel(KernelInput(cluster, projected))
    /\ pc' = "kernel"
    /\ UNCHANGED centreVars
    /\ UNCHANGED <<cluster, partial_sum, epot, r_v>>

\* One iteration of the inner loop of _potential_energy.
\* With r = 0 the tuple is printed and -m2 / r raises ZeroDivisionError
\* (numba.njit compiles with the Python error model).
_potential_energy ==
    /\ pc = "kernel"
    /\ Kernel = "_potential_energy"
    /\ it <= Len(LoopTable[Len(x)])
    /\ LET i == LoopTable[Len(x)][it][1]
           j == LoopTable[Len(x)][it][2]
           r == R(x, i, j)
       IN  /\ visited' = visited (+) SetToBag({<<i, j>>})
           /\ printed' = IF r = 0 THEN printed \cup {<<i, j, r>>} ELSE printed
           /\ IF r = 0
              THEN pc' = "raised" /\ UNCHANGED <<pot, it>>
              ELSE pot' = AddPair(pot, x, i, j) /\ it' = it + 1 /\ pc' = pc
    /\ UNCHANGED centreVars
    /\ UNCHANGED <<cluster, call, x, weighted_sum, partial_sum, wk, writers,
                   epot, r_v>>

\* One iteration of the inner loop of _weighted_inverse_distance_sum.
_weighted_inverse_distance_sum ==
    /\ pc = "kernel"
    /\ Kernel = "_weighted_inverse_distance_sum"
    /\ it <= Len(LoopTable[Len(x)])
    /\ LET i == LoopTable[Len(x)][it][1]
           j == LoopTable[Len(x)][it][2]
           r == R(x, i, j)
       IN  /\ visited' = visited (+) SetToBag({<<i, j>>})
           /\ IF r = 0
              THEN pc' = "raised" /\ UNCHANGED <<weighted_sum, it>>
              ELSE /\ weighted_sum' = weighted_sum + Quot(x, i, j)
                   /\ it' = it + 1
                   /\ pc' = pc
    /\ UNCHANGED centreVars
    /\ UNCHANGED <<cluster, call, x, pot, partial_sum, printed, wk, writers,
                   epot, r_v>>

\* return pot / return weighted_sum of the sequential kernels.
KernelReturn ==
    /\ pc = "kernel"
    /\ Kernel \in {"_potential_energy", "_weighted_inverse_distance_sum"}
    /\ it > Len(LoopTable[Len(x)])
    /\ pc' = "finish"
    /\ partial_sum' = IF Kernel = "_weighted_inverse_distance_sum"
                      THEN Fin(weighted_sum) ELSE partial_sum
    /\ UNCHANGED centreVars
    /\ UNCHANGED <<cluster, call, x, it, pot, weighted_sum, visited, printed,
                   wk, writers, epot, r_v>>

\* pot /= cluster.m
DivideByMass(p, m) == [k \in DOMAIN p |-> NpDivide(p[k], m[k])]

\* pot = grav * np.array(kernel(x)); if specific: pot /= cluster.m; return.
energies_finish ==
    /\ pc = "finish"
    /\ call.fn = "energies"
    /\ LET gp == [k \in DOMAIN pot |-> grav * pot[k]]
       IN  epot' = IF call.specific
                   THEN DivideByMass(gp, cluster.m)
                   ELSE [k \in DOMAIN gp |-> Fin(gp[k])]
    /\ pc' = "done"
    /\ UNCHANGED centreVars
    /\ UNCHANGED <<cluster, call, x, it, pot, weighted_sum, partial_sum,
                   visited, printed, wk, writers, r_v>>

\* gmr = -grav * m[indx] / dr[indx] with m = cluster.m and indx = dr != 0.0,
\* then np.sum(gmr), for the star of row i (from 0) of the array a.
RowPotential(a, i) ==
    Fin(0 - SeqSum([k \in 1..Len(a) |->
                      IF R(a, i, k - 1) = 0 THEN 0
                      ELSE (grav * a[k][4] * Scale) \div R(a, i, k - 1)]))

\* m = cluter.m[i] * cluster.m: the name cluter is not defined (NameError).
NameRaises(specific) == ~ specific

\* energies(cluster, specific, full=False, projected): the loop over the
\* stars at lines 560-580.  pot is a list with one np.sum(gmr) per star; the
\* first iteration raises when specific is False.
energies_rows(specific, projected) ==
    /\ pc = "idle"
    /\ call' = [fn |-> "energies", specific |-> specific, full |-> FALSE,
                projected |-> projected, parallel |-> FALSE, i_d |-> NoStar]
    /\ IF NameRaises(specific) /\ cluster.ntot > 0
       THEN pc' = "raised" /\ epot' = epot
       ELSE /\ pc' = "done"
            /\ epot' = [i \in 1..cluster.ntot |->
                          RowPotential(KernelInput(cluster, projected), i - 1)]
    /\ UNCHANGED centreVars
    /\ UNCHANGED <<cluster, x, it, pot, weighted_sum, partial_sum, visited,
                   printed, wk, writers, r_v>>

\* energies(cluster, specific, i_d, projected): lines 524-546, for the id of
\* one star of the cluster.  pot is the scalar np.sum(gmr).
energies_i_d(specific, projected, i_d) ==
    /\ pc = "idle"
    /\ i_d \in 1..cluster.ntot
    /\ call' = [fn |-> "energies", specific |-> specific, full |-> TRUE,
                projected |-> projected, parallel |-> FALSE, i_d |-> i_d]
    /\ IF NameRaises(specific)
       THEN pc' = "raised" /\ epot' = epot
       ELSE /\ pc' = "done"
            /\ epot' = RowPotential(KernelInput(cluster, projected), i_d - 1)
    /\ UNCHANGED centreVars
    /\ UNCHANGED <<cluster, x, it, pot, weighted_sum, partial_sum, visited,
                   printed, wk, writers, r_v>>

----------------------------------------------------------------------------
\* numba.prange(total): the iterations are split into contiguous chunks, one
\* per thread; iteration i runs on thread Owner(i, total).
Owner(i, total) == (i * NumThreads) \div total + 1

\* The values of i that thread w runs, in order.
Chunk(w, n) ==
    SelectSeq(OuterRange(n), LAMBDA i : Owner(i, Len(OuterRange(n))) = w)

\* The iterations (i, j) thread w runs, in order.
WorkerPairs(w, n) == Nest(Chunk(w, n), n)

\* WorkerPairs, tabulated for the threads and array lengths that occur.
WorkerTable == [w \in 1..NumThreads |-> [n \in 0..MaxN |-> WorkerPairs(w, n)]]

WorkerActive(w) ==
    /\ pc = "kernel"
    /\ Kernel = "_potential_energy_parallel"
    /\ wk[w].k <= Len(WorkerTable[w][Len(x)])

WI(w) == WorkerTable[w][Len(x)][wk[w].k][1]
WJ(w) == WorkerTable[w][Len(x)][wk[w].k][2]

\* pot[i] += -m2 / r is a load of pot[i] followed by a store; the list pot
\* is shared by the threads and nothing makes the update atomic.
\* Thread w: r, m2, and the load of pot[i].  r = 0 raises ZeroDivisionError.
par_load_i(w) ==
    /\ WorkerActive(w)
    /\ wk[w].phase = "load_i"
    /\ visited' = visited (+) SetToBag({<<WI(w), WJ(w)>>})
    /\ IF R(x, WI(w), WJ(w)) = 0
       THEN pc' = "raised" /\ UNCHANGED wk
       ELSE /\ wk' = [wk EXCEPT ![w].reg = pot[WI(w) + 1], ![w].phase = "store_i"]
            /\ pc' = pc
    /\ UNCHANGED centreVars
    /\ UNCHANGED <<cluster, call, x, it, pot, weighted_sum, partial_sum,
                   printed, writers, epot, r_v>>

\* Thread w: the store of pot[i].
par_store_i(w) ==
    /\ WorkerActive(w)
    /\ wk[w].phase = "store_i"
    /\ pot' = [pot EXCEPT ![WI(w) + 1] = wk[w].reg - Quot(x, WI(w), WJ(w))]
    /\ writers' = [writers EXCEPT ![WI(w) + 1] = @ \cup {w}]
    /\ wk' = [wk EXCEPT ![w].reg = 0, ![w].phase = "load_j"]
    /\ UNCHANGED centreVars
    /\ UNCHANGED <<cluster, call, pc, x, it, weighted_sum, partial_sum,
                   visited, printed, epot, r_v>>

\* Thread w: the load of pot[j].
par_load_j(w) ==
    /\ WorkerActive(w)
    /\ wk[w].phase = "load_j"
    /\ wk' = [wk EXCEPT ![w].reg = pot[WJ(w) + 1], ![w].phase = "store_j"]
    /\ UNCHANGED centreVars
    /\ UNCHANGED <<cluster, call, pc, x, it, pot, weighted_sum, partial_sum,
                   visited, printed, writers, epot, r_v>>

\* Thread w: the store of pot[j]; the thread goes on to its next iteration.
par_store_j(w) ==
    /\ WorkerActive(w)
    /\ wk[w].phase = "store_j"
    /\ pot' = [pot EXCEPT ![WJ(w) + 1] = wk[w].reg - Quot(x, WI(w), WJ(w))]
    /\ writers' = [writers EXCEPT ![WJ(w) + 1] = @ \cup {w}]
    /\ wk' = [wk EXCEPT ![w].reg = 0, ![w].phase = "load_i", ![w].k = @ + 1]
    /\ UNCHANGED centreVars
    /\ UNCHANGED <<cluster, call, pc, x, it, weighted_sum, partial_sum,
                   visited, printed, epot, r_v>>

\* return pot of _potential_energy_parallel, once every thread has finished
\* its chunk.
par_return ==
    /\ pc = "kernel"
    /\ Kernel = "_potential_energy_parallel"
    /\ \A w \in 1..NumThreads : wk[w].k > Len(WorkerTable[w][Len(x)])
    /\ pc' = "finish"
    /\ UNCHANGED centreVars
    /\ UNCHANGED <<cluster, call, x, it, pot, weighted_sum, partial_sum,
                   visited, printed, wk, writers, epot, r_v>>

----------------------------------------------------------------------------
\* virial_radius_inverse_distance(cluster, projected, full), with the cluster
\* already in the 'cluster' origin.  full: builds x and enters the kernel.
\* Otherwise: partial_sum = 0.0 and the loop over the rows starts; x holds
\* xs, ys, zs, ms.
virial_radius_inverse_distance(projected, full) ==
    /\ pc = "idle"
    /\ call' = [fn |-> "virial_radius_inverse_distance", specific |-> FALSE,
                full |-> full, projected |-> projected, parallel |-> FALSE,
                i_d |-> NoStar]
    /\ EnterKernel(KernelInput(cluster, projected))
    /\ partial_sum' = Fin(0)
    /\ pc' = IF full THEN "kernel"
             ELSE IF OuterRange(cluster.ntot) = <<>> THEN "finish"
             ELSE "rowloop"
    /\ UNCHANGED centreVars
    /\ UNCHANGED <<cluster, epot, r_v>>

\* One iteration of for i in range(cluster.ntot - 1): the vectorised
\* m_m / dr over the stars i + 1 .. ntot - 1, summed into partial_sum.
virial_row ==
    /\ pc = "rowloop"
    /\ LET n == Len(x)
           i == OuterRange(n)[it]
           js == range(i + 1, n)
           terms == [k \in DOMAIN js |->
                        NpDivide(M2(x, i, js[k]) * Scale, R(x, i, js[k]))]
       IN  /\ partial_sum' = NpAdd(partial_sum, NpSum(terms))
           /\ visited' = visited (+) SetToBag({<<i, js[k]>> : k \in DOMAIN js})
           /\ it' = it + 1
           /\ pc' = IF it = Len(OuterRange(n)) THEN "finish" ELSE pc
    /\ UNCHANGED centreVars
    /\ UNCHANGED <<cluster, call, x, pot, weighted_sum, printed, wk, writers,
                   epot, r_v>>

VirialQuotientNoTwo(ms, ps) ==
    IF ps.k = "nan" THEN [k |-> "nan", num |-> 0, den |-> 1]
    ELSE IF ps.k = "inf" THEN [k |-> "fin", num |-> 0, den |-> 1]
    ELSE IF ps.v = 0
    THEN (IF SeqSum(ms) = 0 THEN [k |-> "nan", num |-> 0, den |-> 1]
          ELSE [k |-> "inf", num |-> 1, den |-> 1])
    ELSE [k |-> "fin", num |-> SeqSum(ms) * SeqSum(ms) * Scale, den |-> ps.v]

\* (np.sum(ms) ** 2) / (2 * partial_sum), as the fraction num / den.
VirialQuotient(ms, ps) ==
    IF ps.k = "nan" THEN [k |-> "nan", num |-> 0, den |-> 1]
    ELSE IF ps.k = "inf" THEN [k |-> "fin", num |-> 0, den |-> 1]
    ELSE IF ps.v = 0
    THEN (IF SeqSum(ms) = 0 THEN [k |-> "nan", num |-> 0, den |-> 1]
          ELSE [k |-> "inf", num |-> 1, den |-> 1])
    ELSE [k |-> "fin", num |-> SeqSum(ms) * SeqSum(ms) * Scale, den |-> 2 * ps.v]

\* r_v = (np.sum(ms) ** 2) / (2 * partial_sum); return r_v
virial_finish ==
    /\ pc = "finish"
    /\ call.fn = "virial_radius_inverse_distance"
    /\ r_v' = VirialQuotient(cluster.m, partial_sum)
    /\ pc' = "done"
    /\ UNCHANGED centreVars
    /\ UNCHANGED <<cluster, call, x, it, pot, weighted_sum, partial_sum,
                   visited, printed, wk, writers, epot>>

----------------------------------------------------------------------------
\* energies is called with every combination of specific and projected for
\* the sequential kernel, and with their defaults for the parallel kernel.
Next ==
    \/ \E specific \in BOOLEAN, projected \in BOOLEAN :
          energies(specific, projected, FALSE)
    \/ energies(TRUE, FALSE, TRUE)
    \/ \E specific \in BOOLEAN, projected \in BOOLEAN :
          energies_rows(specific, projected)
    \/ \E specific \in BOOLEAN, projected \in BOOLEAN, i_d \in 1..MaxN :
          energies_i_d(specific, projected, i_d)
    \/ _potential_energy
    \/ \E w \in 1..NumThreads : par_load_i(w)
    \/ \E w \in 1..NumThreads : par_store_i(w)
    \/ \E w \in 1..NumThreads : par_load_j(w)
    \/ \E w \in 1..NumThreads : par_store_j(w)
    \/ par_return
    \/ \E projected \in BOOLEAN, full \in BOOLEAN :
          virial_radius_inverse_distance(projected, full)
    \/ _weighted_inverse_distance_sum
    \/ virial_row
    \/ KernelReturn
    \/ energies_finish
    \/ virial_finish

Spec == Init /\ [][Next]_vars

----------------------------------------------------------------------------
\* The centre finder: find_centre_of_density.

\* if (mc > 0) and (nc > 100): the population a sphere must exceed.
MinPop == 100
\* Largest number of rows (groups of identical stars) in the cluster arrays.
MaxGroups == 3
\* Largest nmax a call is made with.
MaxIter == 2

\* Candidate groups of stars: position, velocity, mass of one star, number
\* of stars.  A group of more than MinPop stars has mass 0 (tracers) or
\* total mass 1.
Groups ==
    << [p |-> <<0, 0, 0>>, v |-> <<0, 0, 0>>, m |-> Q(0), cnt |-> MinPop + 1],
       [p |-> <<3, 4, 0>>, v |-> <<1, 0, 0>>, m |-> <<1, MinPop + 1>>,
        cnt |-> MinPop + 1],
       [p |-> <<-3, -4, 0>>, v |-> <<0, 2, 0>>, m |-> <<1, MinPop + 1>>,
        cnt |-> MinPop + 1],
       [p |-> <<0, 0, 12>>, v |-> <<0, 0, -1>>, m |-> Q(2), cnt |-> 1] >>

\* The cluster whose rows are the groups f[1], ..., f[n].
CentreCluster(f, n) ==
    [x |-> [k \in 1..n |-> Q(Groups[f[k]].p[1])],
     y |-> [k \in 1..n |-> Q(Groups[f[k]].p[2])],
     z |-> [k \in 1..n |-> Q(Groups[f[k]].p[3])],
     vx |-> [k \in 1..n |-> Q(Groups[f[k]].v[1])],
     vy |-> [k \in 1..n |-> Q(Groups[f[k]].v[2])],
     vz |-> [k \in 1..n |-> Q(Groups[f[k]].v[3])],
     m |-> [k \in 1..n |-> Groups[f[k]].m],
     id |-> [k \in 1..n |-> k],
     cnt |-> [k \in 1..n |-> Groups[f[k]].cnt],
     ntot |-> SeqSum([k \in 1..n |-> Groups[f[k]].cnt])]

CentreClusters ==
    UNION { {CentreCluster(f, n) :
                f \in {h \in [1..n -> DOMAIN Groups] :
                          \A k \in 1..(n - 1) : h[k] <= h[k + 1]}} :
            n \in 0..MaxGroups }

\* Keyword arguments: an optional value is [given, v].
None == [given |-> FALSE, v |-> Q(0)]
Some(v) == [given |-> TRUE, v |-> v]

\* Candidate arguments.  indx is None, a mask that leaves out the last row,
\* or an all-False mask.
Starts == {<<Q(0), Q(0), Q(0), Q(0), Q(0), Q(0)>>,
           <<Q(3), Q(4), Q(0), Q(1), Q(0), Q(0)>>}
\* The pairs <<rmin, rmax>>.
Radii == {<<Q(1), None>>, <<Q(1), Some(Q(6))>>, <<Q(1), Some(Q(13))>>,
          <<Q(6), None>>}
IndxKinds == {"None", "head", "empty"}

Indx(kind, n) ==
    [given |-> kind # "None",
     v |-> [k \in 1..n |-> CASE kind = "head" -> k < n
                            [] kind = "empty" -> FALSE
                            [] OTHER -> TRUE]]

\* np.ones(cluster.ntot, bool): one entry per row.
Ones(n) == [k \in 1..n |-> TRUE]

\* The rows a mask selects, in order.
Rows(mask) == SelectSeq([k \in 1..Len(mask) |-> k], LAMBDA k : mask[k])

\* a[indx]
Take(a, rows) == [k \in 1..Len(rows) |-> a[rows[k]]]

\* x ** 2.0 + y ** 2.0 + z ** 2.0 for row k of the working arrays a.
R2(a, k) ==
    QAdd(QAdd(QMul(a[1][k], a[1][k]), QMul(a[2][k], a[2][k])),
         QMul(a[3][k], a[3][k]))

RECURSIVE QMax(_)
QMax(s) ==
    IF Len(s) = 1 THEN s[1]
    ELSE LET t == QMax(Tail(s)) IN IF QLess(s[1], t) THEN t ELSE s[1]

\* np.amax(r) ** 2 for r = np.sqrt(x ** 2.0 + y ** 2.0 + z ** 2.0); the
\* arrays are not empty.
Amax2(a) == QMax([k \in DOMAIN a[1] |-> R2(a, k)])

OriginCentre(a) == [i \in 1..6 |-> Q(0)]
\* xdc, ydc, zdc = xstart, ystart, zstart and likewise the velocities.
StartOfCentre(a) == a.start
\* Lines 201-222: the local variables at the head of the loop.  a[i] is the
\* working array of coordinate i (x, y, z, vx, vy, vz), sel the rows of the
\* cluster the working rows come from, dc the accumulated centre.
DensityLocals(c, a) ==
    LET mask == IF a.indx.given THEN a.indx.v ELSE Ones(Len(c.x))
        rows == Rows(mask)
        arr == [i \in 1..6 |-> QSubAll(Take(c[Coords[i]], rows), a.start[i])]
    IN  [sel |-> rows,
         cnt |-> Take(c.cnt, rows),
         m |-> Take(c.m, rows),
         a |-> arr,
         rlim2 |-> IF a.rmax.given THEN QMul(a.rmax.v, a.rmax.v)
                   ELSE IF rows = <<>> THEN Q(0)
                   ELSE Amax2(arr),
         n |-> 0,
         dc |-> StartOfCentre(a)]

\* np.amax raises ValueError on an empty array.
AmaxRaises(c, a) ==
    /\ ~ a.rmax.given
    /\ Rows(IF a.indx.given THEN a.indx.v ELSE Ones(Len(c.x))) = <<>>

LoopCondNoRadius(l, a) == l.n < a.nmax
LoopCondInclusive(l, a) ==
    /\ QLess(QMul(a.rmin, a.rmin), l.rlim2)
    /\ l.n <= a.nmax
\* while (rlim > rmin) and (n < nmax)
LoopCond(l, a) ==
    /\ QLess(QMul(a.rmin, a.rmin), l.rlim2)
    /\ l.n < a.nmax

\* indx = r2 < rlim ** 2
InSphere(l) == [k \in DOMAIN l.m |-> QLess(R2(l.a, k), l.rlim2)]

\* nc = np.sum(indx)
Nc(l, in) == SeqSum([k \in DOMAIN in |-> IF in[k] THEN l.cnt[k] ELSE 0])

\* np.sum(m[indx] * v[indx]) for an array v (cnt stars per row).
MassSum(l, in, v) ==
    QSum([k \in DOMAIN in |->
            IF in[k] THEN QMul(Q(l.cnt[k]), QMul(l.m[k], v[k])) ELSE Q(0)])

\* mc = np.sum(m[indx])
Mc(l, in) == MassSum(l, in, [k \in DOMAIN in |-> Q(1)])

McIsZeroNever(mc) == FALSE
\* if mc == 0
McIsZero(mc) == mc = Q(0)

\* Lines 230-241: xc, yc, zc, vxc, vyc, vzc.
Centroid(l, in) ==
    IF McIsZero(Mc(l, in)) THEN [i \in 1..6 |-> Q(0)]
    ELSE [i \in 1..6 |-> QDiv(MassSum(l, in, l.a[i]), Mc(l, in))]

AppliesAnyPop(mc, nc) == QLess(Q(0), mc)
\* if (mc > 0) and (nc > 100)
Applies(mc, nc) == QLess(Q(0), mc) /\ nc > MinPop

AccumulateTwice(l, c) ==
    [l EXCEPT !.a = [i \in 1..6 |-> QSubAll(@[i], c[i])],
              !.dc = QVecAdd(QVecAdd(@, c), c)]
\* Lines 244-256: x -= xc ... vzdc += vzc
Accumulate(l, c) ==
    [l EXCEPT !.a = [i \in 1..6 |-> QSubAll(@[i], c[i])],
              !.dc = QVecAdd(@, c)]

ShrinkByHalf(l) == [l EXCEPT !.rlim2 = QMul(@, <<1, 4>>), !.n = @ + 1]
\* rlim *= 0.8 ; n += 1
Shrink(l) == [l EXCEPT !.rlim2 = QMul(@, <<16, 25>>), !.n = @ + 1]

SharedArray(i) == FALSE
\* cluster.x[indx] - xstart is a new array: the working array of coordinate i
\* shares no memory with the cluster's array.
NewArray(i) == TRUE

\* a with the rows sel replaced by the entries of w.
Scatter(a, sel, w) ==
    [k \in DOMAIN a |->
        IF \E j \in DOMAIN sel : sel[j] = k
        THEN w[CHOOSE j \in DOMAIN sel : sel[j] = k]
        ELSE a[k]]

\* The cluster after an in-place update of the working arrays of l.
WriteBack(c, l) ==
    [f \in DOMAIN c |->
        IF \E i \in 1..6 : Coords[i] = f /\ ~ NewArray(i)
        THEN Scatter(c[f], l.sel, l.a[CHOOSE i \in 1..6 : Coords[i] = f])
        ELSE c[f]]

\* Entry of find_centre_of_density with the arguments a (call number no).
EnterDensity(fn, a, no) ==
    /\ fc' = [fn |-> fn, callno |-> no, start |-> a.start, rmin |-> a.rmin,
              rmax |-> a.rmax, nmax |-> a.nmax, indx |-> a.indx,
              density |-> TRUE, nsigma |-> a.nsigma, nsphere |-> a.nsphere]
    /\ loc' = DensityLocals(cluster, a)
    /\ fpc' = IF AmaxRaises(cluster, a) THEN "raised" ELSE "loop"
    /\ steps' = <<>>
    /\ ret' = <<>>

\* find_centre_of_density(cluster, xstart, ..., vzstart, indx, rmin, rmax, nmax)
find_centre_of_density(a) ==
    /\ fpc = "idle"
    /\ EnterDensity("find_centre_of_density", a, 1)
    /\ UNCHANGED <<cluster, first>>
    /\ UNCHANGED <<pairVars, indx>>

\* A second call, started from the centre the first call returned, with the
\* other arguments of the first call.
find_centre_of_density_again ==
    /\ fpc = "returned"
    /\ fc.fn = "find_centre_of_density"
    /\ fc.callno = 1
    /\ EnterDensity("find_centre_of_density",
                    [fc EXCEPT !.start = ret], 2)
    /\ UNCHANGED <<cluster, first>>
    /\ UNCHANGED <<pairVars, indx>>

\* One iteration of the while loop, lines 225-261.
density_iteration ==
    /\ fpc = "loop"
    /\ LoopCond(loc, fc)
    /\ LET in == InSphere(loc)
           nc == Nc(loc, in)
           mc == Mc(loc, in)
           c == Centroid(loc, in)
           ok == Applies(mc, nc)
           after == IF ok THEN Accumulate(loc, c) ELSE loc
       IN  /\ loc' = IF ok THEN Shrink(after) ELSE loc
           /\ fpc' = IF ok THEN "loop" ELSE "exit"
           /\ cluster' = IF ok THEN WriteBack(cluster, after) ELSE cluster
           /\ steps' = Append(steps,
                  [rlim2 |-> loc.rlim2, n |-> loc.n, nc |-> nc, mc |-> mc,
                   c |-> c, applied |-> ok, before |-> loc.dc,
                   after |-> after.dc])
    /\ UNCHANGED <<fc, ret, first>>
    /\ UNCHANGED <<pairVars, indx>>

\* return xdc, ydc, zdc, vxdc, vydc, vzdc
density_return ==
    /\ \/ fpc = "exit"
       \/ fpc = "loop" /\ ~ LoopCond(loc, fc)
    /\ ret' = loc.dc
    /\ first' = IF fc.callno = 1 THEN loc.dc ELSE first
    /\ fpc' = "returned"
    /\ UNCHANGED <<cluster, fc, loc, steps>>
    /\ UNCHANGED <<pairVars, indx>>

----------------------------------------------------------------------------
\* find_centre: the wrapper and the sigma-clipped mode (density=False).

RECURSIVE ISqrtFrom(_, _)
ISqrtFrom(n, r) == IF r * r >= n THEN r ELSE ISqrtFrom(n, r + 1)
\* np.sqrt of a rational that is a square.
QSqrt(p) == <<ISqrtFrom(p[1], 0), ISqrtFrom(p[2], 0)>>

\* The sigma-clipped mode is run on particles on the line through the start
\* position along (3, 4, 0), where every distance is rational.
Collinear(c, a) ==
    \A k \in DOMAIN c.x :
        ((~ a.indx.given) \/ a.indx.v[k]) =>
            /\ c.z[k] = a.start[3]
            /\ QMul(Q(4), QSub(c.x[k], a.start[1]))
                  = QMul(Q(3), QSub(c.y[k], a.start[2]))

\* Lines 125-129: x, y, z, i_d (r is computed from x, y, z where it is used).
SigmaLocals(c, a) ==
    LET mask == IF a.indx.given THEN a.indx.v ELSE Ones(Len(c.x))
        rows == Rows(mask)
    IN  [i_d |-> Take(c.id, rows),
         cnt |-> Take(c.cnt, rows),
         a |-> [i \in 1..3 |-> QSubAll(Take(c[Coords[i]], rows), a.start[i])]]

\* len(r)
StarCount(cnt, keep) ==
    SeqSum([k \in DOMAIN cnt |-> IF keep[k] THEN cnt[k] ELSE 0])

\* np.mean(v[keep]) over the stars (cnt per row).
Mean(cnt, keep, v) ==
    QDiv(QSum([k \in DOMAIN cnt |->
                 IF keep[k] THEN QMul(Q(cnt[k]), v[k]) ELSE Q(0)]),
         Q(StarCount(cnt, keep)))

AllRows(l) == [k \in DOMAIN l.cnt |-> TRUE]

\* np.std(r) ** 2: the population variance of r.
Variance(l) ==
    LET r == [k \in DOMAIN l.cnt |-> QSqrt(R2(l.a, k))]
        r2 == [k \in DOMAIN l.cnt |-> R2(l.a, k)]
        mu == Mean(l.cnt, AllRows(l), r)
    IN  QSub(Mean(l.cnt, AllRows(l), r2), QMul(mu, mu))

\* indx = r < sigma with sigma = nsigma * np.std(r): both sides are not
\* negative, so the squares are compared.
Keep(l, nsigma) ==
    [k \in DOMAIN l.cnt |->
        QLess(R2(l.a, k), QMul(QMul(nsigma, nsigma), Variance(l)))]

\* Lines 136-139: the kept rows, re-centred on their mean position.
Clip(l, keep) ==
    LET rows == Rows(keep)
        cnt == Take(l.cnt, rows)
        all == [k \in DOMAIN cnt |-> TRUE]
    IN  [i_d |-> Take(l.i_d, rows),
         cnt |-> cnt,
         a |-> [i \in 1..3 |->
                  QSubAll(Take(l.a[i], rows), Mean(cnt, all, Take(l.a[i], rows)))]]

CentreOfAll(c, i_d) ==
    LET in == [k \in DOMAIN c.id |-> TRUE]
        l == [cnt |-> c.cnt, m |-> c.m]
    IN  [i \in 1..6 |-> QDiv(MassSum(l, in, c[Coords[i]]), Mc(l, in))]
\* Lines 145-153: np.in1d(cluster.id, i_d) and the centre of mass and of
\* velocity of those stars; 0.0 / 0.0 is nan.
CentreOfMass(c, i_d) ==
    LET in == [k \in DOMAIN c.id |-> \E j \in DOMAIN i_d : i_d[j] = c.id[k]]
        l == [cnt |-> c.cnt, m |-> c.m]
    IN  [i \in 1..6 |-> QDiv(MassSum(l, in, c[Coords[i]]), Mc(l, in))]

\* find_centre(cluster, xstart, ..., vzstart, indx, nsigma, nsphere, density,
\* rmin, rmax, nmax).  The message printed at line 106 is not modelled.
find_centre(a) ==
    /\ fpc = "idle"
    /\ IF a.indx.given /\ Rows(a.indx.v) = <<>>
       THEN /\ fc' = [fn |-> "find_centre", callno |-> 1, start |-> a.start,
                      rmin |-> a.rmin, rmax |-> a.rmax, nmax |-> a.nmax,
                      indx |-> a.indx, density |-> a.density,
                      nsigma |-> a.nsigma, nsphere |-> a.nsphere]
            /\ fpc' = "no_subset"
            /\ ret' = [i \in 1..6 |-> Q(0)]
            /\ UNCHANGED <<loc, steps>>
       ELSE IF a.density
       THEN EnterDensity("find_centre", a, 1)
       ELSE /\ Collinear(cluster, a)
            /\ fc' = [fn |-> "find_centre", callno |-> 1, start |-> a.start,
                      rmin |-> a.rmin, rmax |-> a.rmax, nmax |-> a.nmax,
                      indx |-> a.indx, density |-> FALSE,
                      nsigma |-> a.nsigma, nsphere |-> a.nsphere]
            /\ fpc' = "sigma"
            /\ loc' = SigmaLocals(cluster, a)
            /\ ret' = <<>>
            /\ UNCHANGED steps
    /\ UNCHANGED <<cluster, first>>
    /\ UNCHANGED <<pairVars, indx>>

\* One pass of the clipping loop, lines 132-142.
sigma_pass ==
    /\ fpc = "sigma"
    /\ StarCount(loc.cnt, AllRows(loc)) > fc.nsphere
    /\ LET keep == Keep(loc, fc.nsigma)
       IN  IF StarCount(loc.cnt, keep) > fc.nsphere
           THEN /\ loc' = Clip(loc, keep)
                /\ fpc' = "sigma"
           ELSE /\ loc' = loc
                /\ fpc' = "sigma_exit"
    /\ UNCHANGED <<cluster, fc, steps, ret, first>>
    /\ UNCHANGED <<pairVars, indx>>

\* Lines 145-155.
sigma_return ==
    /\ \/ fpc = "sigma_exit"
       \/ fpc = "sigma" /\ ~ (StarCount(loc.cnt, AllRows(loc)) > fc.nsphere)
    /\ ret' = CentreOfMass(cluster, loc.i_d)
    /\ fpc' = "returned"
    /\ UNCHANGED <<cluster, fc, loc, steps, first>>
    /\ UNCHANGED <<pairVars, indx>>

InitCentre ==
    /\ cluster \in CentreClusters
    /\ call = NoCall
    /\ pc = "idle"
    /\ x = <<>>
    /\ it = 1
    /\ pot = <<>>
    /\ weighted_sum = 0
    /\ partial_sum = Fin(0)
    /\ visited = EmptyBag
    /\ printed = {}
    /\ wk = IdleWorkers
    /\ writers = <<>>
    /\ epot = <<>>
    /\ r_v = [k |-> "none", num |-> 0, den |-> 1]
    /\ fc = NoCentreCall
    /\ fpc = "idle"
    /\ loc = NoLocals
    /\ steps = <<>>
    /\ ret = <<>>
    /\ first = <<>>
    /\ indx = NoArray

\* The arguments of the calls made.  find_centre_of_density has no nsigma
\* and nsphere: the fields hold find_centre's defaults.
DensityArgs ==
    {[start |-> s0, rmin |-> rr[1], rmax |-> rr[2], nmax |-> nmax,
      indx |-> Indx(kind, Len(cluster.x)), nsigma |-> Q(1),
      nsphere |-> MinPop] :
        s0 \in Starts, rr \in Radii, nmax \in 0..MaxIter,
        kind \in IndxKinds}

NSigmas == {Q(1), Q(3)}
NSpheres == {100, 250}

\* find_centre is called with density=True and rmin 1, rmax None, nmax
\* MaxIter and the default nsigma and nsphere, or with density=False.
CentreArgs ==
    {[start |-> s0, rmin |-> Q(1), rmax |-> None, nmax |-> MaxIter,
      indx |-> Indx(kind, Len(cluster.x)), nsigma |-> nsigma,
      nsphere |-> nsphere, density |-> density] :
        s0 \in Starts, kind \in IndxKinds, nsigma \in NSigmas,
        nsphere \in NSpheres, density \in {FALSE}}
    \cup
    {[start |-> s0, rmin |-> Q(1), rmax |-> None, nmax |-> MaxIter,
      indx |-> Indx(kind, Len(cluster.x)), nsigma |-> Q(1),
      nsphere |-> MinPop, density |-> TRUE] :
        s0 \in Starts, kind \in IndxKinds}

NextCentre ==
    \/ \E a \in DensityArgs : find_centre_of_density(a)
    \/ find_centre_of_density_again
    \/ density_iteration
    \/ density_return
    \/ \E a \in CentreArgs : find_centre(a)
    \/ sigma_pass
    \/ sigma_return

SpecCentre == InitCentre /\ [][NextCentre]_vars

----------------------------------------------------------------------------
\* Definitions used to state the properties.

\* The kernel has returned to its caller.
Returned == pc \in {"finish", "done"}

\* The unordered pairs of n particles, as (i, j) with i < j.
UnorderedPairs(n) == {p \in (0..(n - 1)) \X (0..(n - 1)) : p[1] < p[2]}

\* The rows of a lie at pairwise distinct positions.
Distinct(a) ==
    \A i, j \in 1..Len(a) :
        i # j => <<a[i][1], a[i][2], a[i][3]>> # <<a[j][1], a[j][2], a[j][3]>>

\* -m_i * m_j / distance(i, j) for rows i # j (1-based) at distinct positions.
PairTerm(a, i, j) == 0 - ((a[i][4] * a[j][4] * Scale) \div distance(a[i], a[j]))

RECURSIVE SumTerms(_, _, _)
SumTerms(a, i, S) ==
    IF S = {} THEN 0
    ELSE LET j == CHOOSE j \in S : TRUE
         IN  PairTerm(a, i, j) + SumTerms(a, i, S \ {j})

\* Sum over all j # i of -m_i * m_j / distance(i, j).
SumOthers(a, i) == SumTerms(a, i, (1..Len(a)) \ {i})

RECURSIVE SumPairTerms(_, _)
SumPairTerms(a, S) ==
    IF S = {} THEN 0
    ELSE LET p == CHOOSE p \in S : TRUE
         IN  PairTerm(a, p[1] + 1, p[2] + 1) + SumPairTerms(a, S \ {p})

\* Sum of the kernel over the N(N-1)/2 unordered pairs, each taken once.
PairSum(a) == SumPairTerms(a, UnorderedPairs(Len(a)))

----------------------------------------------------------------------------
\* C1: in each of the three pairwise kernels no pair (i, i) is visited, no
\* unordered pair is visited twice, and when the kernel returns every
\* unordered pair {i, j} of the N particles has been visited exactly once.
C1_EachPairOnce ==
    Kernel # "none" =>
        /\ \A p \in BagToSet(visited) :
              /\ p[1] # p[2]
              /\ CopiesIn(p, visited) = 1
              /\ ~ BagIn(<<p[2], p[1]>>, visited)
        /\ Returned => BagToSet(visited) = UnorderedPairs(Len(x))

\* C1: the parallel kernel has returned for three or more particles.
C1_Witness ==
    /\ Kernel = "_potential_energy_parallel"
    /\ pc = "finish"
    /\ Len(x) >= 3
    /\ BagCardinality(visited) >= 3

\* C2: when _potential_energy_parallel returns, its list equals the one
\* _potential_energy returns for the same input, whatever the interleaving
\* of the threads.
C2_ParallelEqualsSequential ==
    (Kernel = "_potential_energy_parallel" /\ pc = "finish")
        => pot = SequentialPot(x)

\* C3: during _potential_energy_parallel no two threads store to the same
\* element of pot.
C3_NoSharedWrites ==
    \A k \in DOMAIN writers : Cardinality(writers[k]) <= 1

\* C4: for particles at pairwise distinct positions, when _potential_energy
\* returns, pot[i] is the sum over all j # i of -m_i * m_j / distance(i, j).
C4_PotIsSumOverOthers ==
    (Kernel = "_potential_energy" /\ Returned /\ Distinct(x))
        => \A i \in 1..Len(x) : pot[i] = SumOthers(x, i)

\* C4: the kernel has returned for three particles at distinct positions and
\* every accumulator has received a non-zero contribution.
C4_Witness ==
    /\ Kernel = "_potential_energy"
    /\ pc = "finish"
    /\ Len(x) >= 3
    /\ Distinct(x)
    /\ \A i \in 1..Len(x) : pot[i] < 0

\* C5 as stated: the sum of the per-particle accumulators _potential_energy
\* returns equals the sum of the kernel over the unordered pairs, each pair
\* counted once.
C5_TotalCountsPairsOnce ==
    (Kernel = "_potential_energy" /\ Returned /\ Distinct(x))
        => SeqSum(pot) = PairSum(x)

\* C5 as amended: the sum of the per-particle accumulators _potential_energy
\* returns equals twice the sum of the kernel over the unordered pairs, each
\* pair being added to the accumulators of both its members.
C5_TotalCountsPairsTwice ==
    (Kernel = "_potential_energy" /\ Returned /\ Distinct(x))
        => SeqSum(pot) = 2 * PairSum(x)

\* C5: the kernel has returned a list with a non-zero total for three
\* particles.
C5_Witness ==
    /\ Kernel = "_potential_energy"
    /\ pc = "finish"
    /\ Len(x) >= 3
    /\ SeqSum(pot) < 0

\* C6: a coincident pair (distance 0) met by a kernel does not end the
\* summation with an error: the kernel goes on with the remaining pairs.
C6_CoincidentPairContinues ==
    \A p \in BagToSet(visited) :
        (Kernel # "none" /\ R(x, p[1], p[2]) = 0) => pc # "raised"

\* C7: every coincident pair met by any of the three kernels is reported
\* with both indices and the distance.
C7_CoincidentPairReported ==
    \A p \in BagToSet(visited) :
        (Kernel # "none" /\ R(x, p[1], p[2]) = 0)
            => <<p[1], p[2], 0>> \in printed

\* C8: for N = 0 and N = 1 the kernels raise no error and return neutral
\* results: the potential kernels an empty list for N = 0 and [0] for N = 1,
\* with total 0, and the inverse-distance kernel the sum 0.
C8_DegenerateCounts ==
    (Kernel # "none" /\ Len(x) <= 1) =>
        /\ pc # "raised"
        /\ Returned =>
              /\ pot = Zeros(Len(x))
              /\ SeqSum(pot) = 0
              /\ weighted_sum = 0

\* C8: a potential kernel has returned [0] for a single particle.
C8_Witness ==
    /\ Kernel = "_potential_energy"
    /\ pc = "finish"
    /\ Len(x) = 1
    /\ pot = <<0>>

\* C9: for N = 0 and N = 1 virial_radius_inverse_distance does not evaluate
\* (sum of masses)^2 / (2 * partial_sum) with partial_sum = 0.
C9_NoDivisionByZeroSum ==
    (call.fn = "virial_radius_inverse_distance" /\ pc = "done"
        /\ cluster.ntot <= 1)
        => partial_sum # Fin(0)

\* C10: in energies with specific=True and full=True a particle of mass 0
\* gets a finite specific potential.
C10_ZeroMassFinite ==
    (call.fn = "energies" /\ call.specific /\ call.full /\ call.i_d = NoStar
        /\ pc = "done")
        => \A k \in DOMAIN epot : cluster.m[k] = 0 => epot[k].k = "fin"

\* virial_radius_inverse_distance has returned for two particles of equal
\* positive mass at a distance d > 0 (the distance of the rows of x).
TwoEqualMasses ==
    /\ call.fn = "virial_radius_inverse_distance"
    /\ pc = "done"
    /\ Len(x) = 2
    /\ x[1][4] = x[2][4]
    /\ x[1][4] > 0
    /\ R(x, 0, 1) > 0

\* C11 as stated: for two particles of equal mass at distance d,
\* virial_radius_inverse_distance returns d / 2.
C11_VirialRadiusHalfD ==
    TwoEqualMasses => (r_v.k = "fin" /\ 2 * r_v.num = R(x, 0, 1) * r_v.den)

\* C11 as amended: for two particles of equal positive mass at distance
\* d > 0, virial_radius_inverse_distance returns 2 * d.
C11_VirialRadiusTwoD ==
    TwoEqualMasses => (r_v.k = "fin" /\ r_v.num = 2 * R(x, 0, 1) * r_v.den)

\* C11: the function has returned for two particles of mass 2 at distance 13.
C11_Witness ==
    /\ TwoEqualMasses
    /\ x[1][4] = 2
    /\ R(x, 0, 1) = 13

----------------------------------------------------------------------------
\* Properties of find_centre_of_density.

\* The locals the current call started with.
InitialLocals == DensityLocals(cluster, fc)
InDensity ==
    /\ fc.fn # "none"
    /\ fc.density
    /\ fpc \in {"loop", "exit", "returned"}
Populated(s) == s.nc > MinPop /\ QLess(Q(0), s.mc)
LastStep == steps[Len(steps)]

\* C12: an iteration changes the accumulated centre if and only if its
\* sphere holds more than 100 particles with positive total mass, and then
\* by the centroid of that sphere; an iteration whose population is too
\* small leaves the centre as it was, ends the loop, and the call returns
\* the centre of the last successful iteration.
C12_UpdateIffPopulated ==
    InDensity =>
        /\ \A k \in DOMAIN steps :
              /\ steps[k].applied <=> Populated(steps[k])
              /\ steps[k].after # steps[k].before => Populated(steps[k])
              /\ Populated(steps[k]) =>
                    steps[k].after = QVecAdd(steps[k].before, steps[k].c)
              /\ ~ Populated(steps[k]) =>
                    /\ steps[k].after = steps[k].before
                    /\ k = Len(steps)
                    /\ fpc \in {"exit", "returned"}
              /\ k > 1 => steps[k].before = steps[k - 1].after
        /\ (fpc = "returned" /\ steps # <<>>) => ret = LastStep.after

C12_Witness ==
    /\ InDensity
    /\ fpc = "returned"
    /\ Len(steps) >= 2
    /\ steps[Len(steps) - 1].applied
    /\ steps[Len(steps) - 1].after # steps[Len(steps) - 1].before
    /\ ~ LastStep.applied
    /\ LastStep.nc <= MinPop
    /\ QLess(Q(0), LastStep.mc)
    /\ ret = steps[Len(steps) - 1].after

\* C13: an iteration whose sphere holds zero total mass ends the loop at
\* once; its centroid is set to zero without dividing by mc, the centre
\* stays what it was before the iteration, and the call returns that centre,
\* every component finite.
C13_ZeroMassStops ==
    InDensity =>
        \A k \in DOMAIN steps :
            steps[k].mc = Q(0) =>
                /\ ~ steps[k].applied
                /\ k = Len(steps)
                /\ fpc \in {"exit", "returned"}
                /\ \A i \in 1..6 : steps[k].c[i] = Q(0)
                /\ steps[k].after = steps[k].before
                /\ loc.dc = steps[k].before
                /\ fpc = "returned" =>
                      /\ ret = steps[k].before
                      /\ \A i \in 1..6 : QFinite(ret[i])

C13_Witness ==
    /\ InDensity
    /\ fpc = "returned"
    /\ Len(steps) >= 2
    /\ steps[Len(steps) - 1].applied
    /\ LastStep.mc = Q(0)
    /\ LastStep.nc > MinPop
    /\ ret = steps[Len(steps) - 1].after
    /\ ret # fc.start

\* C14 (as stated): a call whose initial sphere holds more than 100
\* particles of positive mass applies at least one centroid update, whatever
\* the initial radius and nmax.
C14_StepBeforeCheck ==
    (InDensity /\ fpc = "returned"
       /\ Applies(Mc(InitialLocals, InSphere(InitialLocals)),
                  Nc(InitialLocals, InSphere(InitialLocals))))
    => (steps # <<>> /\ steps[1].applied)

\* The initial radius is above rmin and nmax is not 0.
RunsAtAll ==
    /\ QLess(QMul(fc.rmin, fc.rmin), InitialLocals.rlim2)
    /\ fc.nmax > 0

\* C14 (amended): rlim > rmin and n < nmax are tested before every
\* iteration, the first included: a call whose initial radius is not above
\* rmin, or whose nmax is 0, runs no iteration and returns the start centre;
\* a first iteration that does run uses the initial radius.
C14_CheckBeforeStep ==
    InDensity =>
        /\ ~ RunsAtAll => (steps = <<>> /\ loc.dc = fc.start)
        /\ (~ RunsAtAll /\ fpc = "returned") => ret = fc.start
        /\ steps # <<>> => (RunsAtAll /\ steps[1].rlim2 = InitialLocals.rlim2)

C14_Witness ==
    /\ InDensity
    /\ fpc = "returned"
    /\ fc.nmax > 0
    /\ ~ QLess(QMul(fc.rmin, fc.rmin), InitialLocals.rlim2)
    /\ Applies(Mc(InitialLocals, InSphere(InitialLocals)),
               Nc(InitialLocals, InSphere(InitialLocals)))
    /\ steps = <<>>
    /\ ret = fc.start

\* C15: find_centre_of_density terminates within nmax iterations: every
\* step taken at the head of the loop either leaves the loop or adds one to
\* n, n never exceeds nmax, and at n = nmax the only step is the return of
\* the accumulated centre.
C15_BoundedIterations ==
    [][(fpc = "loop") =>
          /\ \/ fpc' = "exit"
             \/ fpc' = "returned" /\ ret' = loc.dc
             \/ /\ fpc' = "loop"
                /\ loc'.n = loc.n + 1
                /\ loc'.n <= fc.nmax
                /\ Len(steps') <= fc.nmax
          /\ loc.n >= fc.nmax => (fpc' = "returned" /\ ret' = loc.dc)]_vars

C15_Witness ==
    /\ InDensity
    /\ fpc = "returned"
    /\ fc.nmax > 0
    /\ loc.n = fc.nmax
    /\ Len(steps) = fc.nmax
    /\ QLess(QMul(fc.rmin, fc.rmin), loc.rlim2)
    /\ ret = loc.dc
    /\ ret # fc.start

\* C16: for every particle of the working subset and every coordinate, the
\* cluster's value is the working value plus the accumulated centre; the
\* returned centre is the start plus the sum of the applied centroids.
RECURSIVE OffsetSum(_)
OffsetSum(s) ==
    IF s = <<>> THEN [i \in 1..6 |-> Q(0)]
    ELSE IF Head(s).applied THEN QVecAdd(Head(s).c, OffsetSum(Tail(s)))
    ELSE OffsetSum(Tail(s))

C16_OriginalFrame ==
    InDensity =>
        /\ \A i \in 1..6 : \A k \in DOMAIN loc.sel :
              cluster[Coords[i]][loc.sel[k]] = QAdd(loc.a[i][k], loc.dc[i])
        /\ loc.dc = QVecAdd(fc.start, OffsetSum(steps))
        /\ fpc = "returned" => ret = QVecAdd(fc.start, OffsetSum(steps))

C16_Witness ==
    /\ InDensity
    /\ fpc = "returned"
    /\ Len(steps) >= 2
    /\ steps[1].applied /\ steps[2].applied
    /\ steps[1].c[1] # Q(0)
    /\ steps[1].c[4] # Q(0)
    /\ fc.start # [i \in 1..6 |-> Q(0)]

\* C17: at the head of the loop of a new call the accumulated centre is the
\* start position and velocity, n is 0, and rlim is rmax when rmax is given,
\* else the largest distance from the start position of a particle of the
\* input subset.
Dist2FromStart(k) ==
    QAdd(QAdd(QMul(QSub(cluster.x[k], fc.start[1]), QSub(cluster.x[k], fc.start[1])),
              QMul(QSub(cluster.y[k], fc.start[2]), QSub(cluster.y[k], fc.start[2]))),
         QMul(QSub(cluster.z[k], fc.start[3]), QSub(cluster.z[k], fc.start[3])))
Selected == {k \in DOMAIN cluster.x : (~ fc.indx.given) \/ fc.indx.v[k]}
AtLoopHead == fpc = "loop" /\ steps = <<>>

C17_InitialState ==
    AtLoopHead =>
        /\ loc.dc = fc.start
        /\ loc.n = 0
        /\ fc.rmax.given => loc.rlim2 = QMul(fc.rmax.v, fc.rmax.v)
        /\ ~ fc.rmax.given =>
              /\ \E k \in Selected : Dist2FromStart(k) = loc.rlim2
              /\ \A k \in Selected : ~ QLess(loc.rlim2, Dist2FromStart(k))

C17_Witness ==
    /\ AtLoopHead
    /\ ~ fc.rmax.given
    /\ fc.indx.given
    /\ fc.start # [i \in 1..6 |-> Q(0)]
    /\ Cardinality(Selected) >= 2
    /\ \E k \in DOMAIN cluster.x : k \notin Selected /\ QLess(loc.rlim2, Dist2FromStart(k))

\* C18: a second call started from the centre the first call returned, with
\* the same rmin (and the other arguments), returns that same centre.
C18_SecondCallSameCentre ==
    (fc.fn = "find_centre_of_density" /\ fc.callno = 2 /\ fpc = "returned")
    => ret = first

----------------------------------------------------------------------------
\* Properties of find_centre.

\* A state of the clipping loop that the next pass leaves as it is: the pass
\* removes no star, the population is above nsphere, and the loop goes on.
SigmaStuck ==
    /\ fpc = "sigma"
    /\ StarCount(loc.cnt, AllRows(loc)) > fc.nsphere
    /\ StarCount(loc.cnt, Keep(loc, fc.nsigma)) > fc.nsphere
    /\ Clip(loc, Keep(loc, fc.nsigma)) = loc

\* C19: the sigma-clipped mode terminates for every input and every
\* nsigma > 0, the loop stopping once a pass removes no particle: the loop is
\* never in a state that a pass leaves unchanged and in which it continues.
C19_ClippingTerminates == ~ SigmaStuck

----------------------------------------------------------------------------
\* What a call returns, as a function of its arguments.

\* The loop of find_centre_of_density from the locals l: the centre returned
\* and whether an iteration found zero mass in its sphere.  A call on an
\* empty subset counts as degenerate as well.
RECURSIVE DensityLoop(_, _)
DensityLoop(l, a) ==
    IF ~ LoopCond(l, a) THEN [ret |-> l.dc, degenerate |-> FALSE]
    ELSE IF Applies(Mc(l, InSphere(l)), Nc(l, InSphere(l)))
    THEN DensityLoop(Shrink(Accumulate(l, Centroid(l, InSphere(l)))), a)
    ELSE [ret |-> l.dc, degenerate |-> McIsZero(Mc(l, InSphere(l)))]

\* find_centre_of_density(cluster, ...) as a whole; a call that raises
\* returns nothing.
RunDensity(c, a) ==
    IF AmaxRaises(c, a) THEN [ret |-> <<>>, degenerate |-> TRUE]
    ELSE IF DensityLocals(c, a).sel = <<>>
    THEN [ret |-> DensityLoop(DensityLocals(c, a), a).ret, degenerate |-> TRUE]
    ELSE DensityLoop(DensityLocals(c, a), a)

\* The call that has returned met a degenerate case: find_centre was given an
\* empty subset, or an iteration of find_centre_of_density found zero mass.
DegenerateReturn ==
    \/ fpc = "no_subset"
    \/ InDensity /\ fpc = "returned" /\ steps # <<>> /\ LastStep.mc = Q(0)

\* C21: the value a degenerate call returns can be told apart from a valid
\* result: no call of find_centre_of_density on the same cluster that meets
\* no degenerate case returns the same value.
C21_DegenerateDistinguishable ==
    DegenerateReturn =>
        \A a \in DensityArgs :
            RunDensity(cluster, a).degenerate \/ RunDensity(cluster, a).ret # ret

----------------------------------------------------------------------------
\* The population filters: mass_function, tapered_mass_function, eta_function,
\* _rho_prof and their caller ckin.  A cluster here carries the per-star
\* arrays the filters read.  The arrays are held in radius order, so that
\* cluster.rorder is the identity.  The fits and the binning are not followed:
\* a result records which of its items are fitted and which are the sentinel.
MaxStars == 3

NonDecreasing(s) == \A k \in 1..(Len(s) - 1) : s[k] <= s[k + 1]

FilterCluster(r, m) ==
    [r |-> r, m |-> m,
     v |-> [k \in 1..Len(r) |-> 1],
     kw |-> [k \in 1..Len(r) |-> 0],
     etot |-> [k \in 1..Len(r) |-> k - 2],
     id |-> [k \in 1..Len(r) |-> k],
     ntot |-> Len(r)]

\* The radii are taken from {1, 2, 3} and the masses from {1, 2}.
FilterClusters ==
    UNION { { FilterCluster(r, m) :
                r \in {s \in [1..n -> {1, 2, 3}] : NonDecreasing(s)},
                m \in [1..n -> {1, 2}] } : n \in 0..MaxStars }

\* A keyword that is None, or a number.
NoneNum == [given |-> FALSE, v |-> 0]
Num(v) == [given |-> TRUE, v |-> v]

\* np.min, np.max of a non-empty array
SeqMin(s) == CHOOSE a \in {s[k] : k \in 1..Len(s)} : \A k \in 1..Len(s) : a <= s[k]
SeqMax(s) == CHOOSE a \in {s[k] : k \in 1..Len(s)} : \A k \in 1..Len(s) : a >= s[k]

\* if rmin == None: rmin = np.min(r)
LowerLimit(o, s) == IF o.given THEN o.v ELSE SeqMin(s)
\* if rmax == None: rmax = np.max(r)
UpperLimit(o, s) == IF o.given THEN o.v ELSE SeqMax(s)

\* np.min and np.max raise ValueError on an empty array; vmin, vmax, mmin and
\* mmax are left at None in every call followed here.
LimitsRaise(c) == c.ntot = 0

\* mass_function and tapered_mass_function test cluster.m < mmax, eta_function
\* and _rho_prof test cluster.m <= mmax.
StrictMass(fn) == fn \in {"mass_function", "tapered_mass_function"}

\* The product of the range tests on r, m, v and kw.
RangeMask(c, a) ==
    [k \in 1..c.ntot |->
        /\ c.r[k] >= LowerLimit(a.rmin, c.r)
        /\ c.r[k] <= UpperLimit(a.rmax, c.r)
        /\ c.m[k] >= SeqMin(c.m)
        /\ IF StrictMass(a.fn) THEN c.m[k] < SeqMax(c.m) ELSE c.m[k] <= SeqMax(c.m)
        /\ c.v[k] >= SeqMin(c.v)
        /\ c.v[k] <= SeqMax(c.v)
        /\ c.kw[k] >= 0
        /\ c.kw[k] <= 1]

\* if indx is None: indx = cluster.id > -1
StartMask(c, arr) == IF arr.given THEN arr.v ELSE [k \in 1..c.ntot |-> c.id[k] > -1]

\* indx *= w
Times(u, w) == [k \in 1..Len(u) |-> u[k] /\ w[k]]

\* if emin != None: indx *= cluster.etot >= emin
AfterEmin(c, a, u) ==
    IF a.emin.given THEN Times(u, [k \in 1..c.ntot |-> c.etot[k] >= a.emin.v]) ELSE u

\* if emin != None: indx *= cluster.etot <= emax
AfterEmax(c, a, u) ==
    IF a.emin.given THEN Times(u, [k \in 1..c.ntot |-> c.etot[k] <= a.emax.v]) ELSE u

\* cluster.etot <= None raises TypeError
EnergyRaises(a) == a.emin.given /\ ~ a.emax.given

FilterRaises(c, a) == LimitsRaise(c) \/ EnergyRaises(a)

\* The array indx names when the filter is done or has raised, from the
\* array arr it named on entry.
FilterMask(c, a, arr) ==
    IF LimitsRaise(c) THEN StartMask(c, arr)
    ELSE IF EnergyRaises(a) THEN AfterEmin(c, a, Times(StartMask(c, arr), RangeMask(c, a)))
    ELSE AfterEmax(c, a, AfterEmin(c, a, Times(StartMask(c, arr), RangeMask(c, a))))

\* The caller's array after the call: indx *= ... works in place on the
\* array that was handed over; with indx=None the array is the call's own.
ArrayAfter(c, a, arr) ==
    IF arr.given /\ ~ LimitsRaise(c) THEN [given |-> TRUE, v |-> FilterMask(c, a, arr)]
    ELSE arr

\* np.sum(indx)
Count(u) == Cardinality({k \in 1..Len(u) : u[k]})

\* if np.sum(indx) >= nmass:  (eta_function: >= 2 * nmass)
Required(a) == IF a.fn = "eta_function" THEN 2 * a.nmass ELSE a.nmass

\* Items of a returned tuple: an array of a length, all zeros or binned
\* values, and a scalar, the sentinel -1000.0 or a fitted value.
ZeroArray(n) == [zeros |-> TRUE, len |-> n]
BinArray(n) == [zeros |-> FALSE, len |-> n]
Sentinel == [fit |-> FALSE, v |-> -1000]
Fitted == [fit |-> TRUE, v |-> 0]

Tuple(arrays, scalars, u) == [arrays |-> arrays, scalars |-> scalars, indx |-> u]

\* return m_mean, m_hist, dm, alpha, ealpha, yalpha, eyalpha
\* return m_mean, m_hist, dm, A, eA, alpha, ealpha, mc, emc, beta, ebeta
\* return m_mean, sigvm, eta, eeta, yeta, eyeta
\* _rho_prof returns its profile arrays without a test of the population.
Success(a, u) ==
    CASE a.fn = "mass_function" ->
            Tuple([k \in 1..3 |-> BinArray(a.nmass)], [k \in 1..4 |-> Fitted], u)
      [] a.fn = "tapered_mass_function" ->
            Tuple([k \in 1..3 |-> BinArray(a.nmass)], [k \in 1..8 |-> Fitted], u)
      [] a.fn = "eta_function" ->
            Tuple([k \in 1..2 |-> BinArray(a.nmass)], [k \in 1..4 |-> Fitted], u)
      [] a.fn = "_rho_prof" ->
            Tuple([k \in 1..3 |-> BinArray(a.nmass)], <<>>, u)

\* The tuples returned after "NOT ENOUGH STARS ...".
NotEnough(a, u) ==
    CASE a.fn = "mass_function" ->
            Tuple([k \in 1..3 |-> ZeroArray(a.nmass)], [k \in 1..4 |-> Sentinel], u)
      [] a.fn = "tapered_mass_function" ->
            Tuple([k \in 1..3 |-> ZeroArray(a.nmass)], [k \in 1..4 |-> Sentinel], u)
      [] a.fn = "eta_function" ->
            Tuple([k \in 1..2 |-> ZeroArray(a.nmass)], [k \in 1..4 |-> Sentinel], u)

\* if np.sum(indx) >= nmass: ... else: print("NOT ENOUGH STARS ...")
Result(c, a, arr) ==
    IF a.fn = "_rho_prof" \/ Count(FilterMask(c, a, arr)) >= Required(a)
    THEN Success(a, FilterMask(c, a, arr))
    ELSE NotEnough(a, FilterMask(c, a, arr))

\* One call of a filter function from the caller.
Population(a) ==
    /\ fpc = "idle"
    /\ fc' = a
    /\ loc' = [indx |-> FilterMask(cluster, a, indx)]
    /\ indx' = ArrayAfter(cluster, a, indx)
    /\ fpc' = IF FilterRaises(cluster, a) THEN "raised" ELSE "returned"
    /\ ret' = IF FilterRaises(cluster, a) THEN <<>> ELSE Result(cluster, a, indx)
    /\ UNCHANGED <<cluster, steps, first>>
    /\ UNCHANGED pairVars

mass_function(a) == a.fn = "mass_function" /\ Population(a)
tapered_mass_function(a) == a.fn = "tapered_mass_function" /\ Population(a)
eta_function(a) == a.fn = "eta_function" /\ Population(a)
_rho_prof(a) == a.fn = "_rho_prof" /\ Population(a)

\* rlagrange(cluster, nlagrange=10): the radius of the first star, in radius
\* order, at which the cumulative mass reaches i tenths of the total; the
\* list is filled up with np.max(r).  Entry i here is rn[i - 1] there.
CumSum(m, k) == SeqSum([j \in 1..k |-> m[j]])
rlagrange(c) ==
    [i \in 1..10 |->
        IF i < 10
        THEN c.r[CHOOSE k \in 1..c.ntot :
                    /\ 10 * CumSum(c.m, k) >= i * CumSum(c.m, c.ntot)
                    /\ \A j \in 1..(k - 1) : 10 * CumSum(c.m, j) < i * CumSum(c.m, c.ntot)]
        ELSE SeqMax(c.r)]

\* rorder[indx][0] raises IndexError when no star is there.
LagrangeRaises(c) == c.ntot = 0

\* eta_function(cluster, ..., rmin=rn[3], rmax=rn[5], ..., indx=indx, meq=True)
Eta50Args(a, rn) == [a EXCEPT !.fn = "eta_function", !.rmin = Num(rn[4]), !.rmax = Num(rn[6])]
\* eta_function(cluster, ..., rmin=0., rmax=rn[4], ..., indx=indx, meq=True)
EtaArgs(a, rn) == [a EXCEPT !.fn = "eta_function", !.rmin = Num(0), !.rmax = Num(rn[5])]

\* ckin: rn = rlagrange(cluster, nlagrange=10, projected=projected)
ckin(a) ==
    /\ fpc = "idle"
    /\ a.fn = "ckin"
    /\ fc' = a
    /\ fpc' = IF LagrangeRaises(cluster) THEN "raised" ELSE "eta50"
    /\ loc' = IF LagrangeRaises(cluster) THEN NoLocals
              ELSE [rn |-> rlagrange(cluster), entry |-> indx]
    /\ UNCHANGED <<cluster, steps, ret, first, indx>>
    /\ UNCHANGED pairVars

\* ckin: m_mean50, sigvm50, meq50, emq50, sigma050, esigma050 = eta_function(...)
ckin_eta50 ==
    /\ fpc = "eta50"
    /\ fpc' = IF FilterRaises(cluster, Eta50Args(fc, loc.rn)) THEN "raised" ELSE "eta"
    /\ loc' = [rn |-> loc.rn, entry |-> loc.entry,
               first |-> IF FilterRaises(cluster, Eta50Args(fc, loc.rn)) THEN <<>>
                         ELSE Result(cluster, Eta50Args(fc, loc.rn), indx)]
    /\ indx' = ArrayAfter(cluster, Eta50Args(fc, loc.rn), indx)
    /\ UNCHANGED <<cluster, fc, steps, ret, first>>
    /\ UNCHANGED pairVars

\* ckin: m_mean, sigvm, meq, emq, sigma0, esigma0 = eta_function(...)
ckin_eta ==
    /\ fpc = "eta"
    /\ fpc' = "ratio"
    /\ loc' = [rn |-> loc.rn, entry |-> loc.entry, first |-> loc.first,
               second |-> Result(cluster, EtaArgs(fc, loc.rn), indx)]
    /\ indx' = ArrayAfter(cluster, EtaArgs(fc, loc.rn), indx)
    /\ UNCHANGED <<cluster, fc, steps, ret, first>>
    /\ UNCHANGED pairVars

\* ckin: ck = meq / meq50; return ck
ckin_return ==
    /\ fpc = "ratio"
    /\ fpc' = "returned"
    /\ ret' = [meq |-> loc.second.scalars[1], meq50 |-> loc.first.scalars[1]]
    /\ UNCHANGED <<cluster, fc, loc, steps, first, indx>>
    /\ UNCHANGED pairVars

\* The arrays a caller hands over as indx=: None, every star, or all stars but
\* the first.
CallerArrays(n) ==
    {NoArray, [given |-> TRUE, v |-> [k \in 1..n |-> TRUE]],
     [given |-> TRUE, v |-> [k \in 1..n |-> k > 1]]}

\* The calls: nmass is 1 or 2, emin and emax are None or 0, rmin and rmax are
\* None.
FilterArgs ==
    [fn : {"mass_function", "tapered_mass_function", "eta_function",
           "_rho_prof", "ckin"},
     nmass : {1, 2}, rmin : {NoneNum}, rmax : {NoneNum},
     emin : {NoneNum, Num(0)}, emax : {NoneNum, Num(0)}]

InitFilter ==
    /\ cluster \in FilterClusters
    /\ indx \in CallerArrays(cluster.ntot)
    /\ call = NoCall
    /\ pc = "idle"
    /\ x = <<>>
    /\ it = 1
    /\ pot = <<>>
    /\ weighted_sum = 0
    /\ partial_sum = Fin(0)
    /\ visited = EmptyBag
    /\ printed = {}
    /\ wk = IdleWorkers
    /\ writers = <<>>
    /\ epot = <<>>
    /\ r_v = [k |-> "none", num |-> 0, den |-> 1]
    /\ fc = NoCentreCall
    /\ fpc = "idle"
    /\ loc = NoLocals
    /\ steps = <<>>
    /\ ret = <<>>
    /\ first = <<>>

NextFilter ==
    \/ \E a \in FilterArgs : mass_function(a)
    \/ \E a \in FilterArgs : tapered_mass_function(a)
    \/ \E a \in FilterArgs : eta_function(a)
    \/ \E a \in FilterArgs : _rho_prof(a)
    \/ \E a \in FilterArgs : ckin(a)
    \/ ckin_eta50
    \/ ckin_eta
    \/ ckin_return

SpecFilter == InitFilter /\ [][NextFilter]_vars

----------------------------------------------------------------------------
\* Properties of the population filters.

\* A call of mass_function, tapered_mass_function or eta_function has ended
\* and fewer stars passed its filters than it requires.
TooFewStars ==
    /\ fpc \in {"returned", "raised"}
    /\ fc.fn \in {"mass_function", "tapered_mass_function", "eta_function"}
    /\ Count(loc.indx) < Required(fc)

TupleLen(t) == Len(t.arrays) + Len(t.scalars)

\* C22: when fewer stars pass the filters than the required population, the
\* call raises nothing and returns a tuple as long as its successful result,
\* whose arrays are zeros of length nmass and whose scalars are all -1000.0.
C22_SentinelShape ==
    TooFewStars =>
        /\ fpc = "returned"
        /\ TupleLen(ret) = TupleLen(Success(fc, loc.indx))
        /\ \A k \in 1..Len(ret.arrays) : ret.arrays[k] = ZeroArray(fc.nmass)
        /\ \A k \in 1..Len(ret.scalars) : ret.scalars[k] = Sentinel

\* C23: the ratio meq / meq50 that ckin returns is never computed from the
\* sentinel -1000.0 of an eta_function call that found too few stars.
C23_NoSentinelRatio ==
    (fc.fn = "ckin" /\ fpc = "returned") => (ret.meq.fit /\ ret.meq50.fit)

\* C26: when emax is given, a star with etot > emax is never selected by
\* mass_function, tapered_mass_function, eta_function or _rho_prof, whether
\* emin is given or not.
C26_EmaxApplied ==
    ( /\ fpc = "returned"
      /\ fc.fn \in {"mass_function", "tapered_mass_function", "eta_function", "_rho_prof"}
      /\ fc.emax.given )
    => \A k \in 1..cluster.ntot : loc.indx[k] => cluster.etot[k] <= fc.emax.v

\* The stars the second eta_function call of ckin selected are those of the
\* array the caller handed to ckin that pass the filters with r in [0, rn[4]].
SecondCallFromEntry ==
    (fc.fn = "ckin" /\ fpc \in {"ratio", "returned"} /\ loc.entry.given)
    => loc.second.indx = FilterMask(cluster, EtaArgs(fc, loc.rn), loc.entry)

\* C29: no call changes the boolean array the caller handed over as indx, and
\* the second eta_function call of ckin selects from the caller's array every
\* star with radius in [0, rn[4]], whatever the first call selected.
C29_CallerArrayUnchanged ==
    [][indx' = indx]_vars /\ []SecondCallFromEntry

----------------------------------------------------------------------------
\* Further properties of find_centre_of_density and find_centre.

\* 0.8 ** (2 * k), the factor on the squared radius after k steps
RECURSIVE ShrinkFactor2(_)
ShrinkFactor2(k) == IF k = 0 THEN Q(1) ELSE QMul(<<16, 25>>, ShrinkFactor2(k - 1))

\* C27: every iteration of find_centre_of_density runs with a radius above
\* rmin and a count n below nmax; from one iteration to the next the radius
\* is multiplied by 0.8 and n grows by one, so that iteration k (from 0) runs
\* with n = k and the initial radius times 0.8 ** k; when the initial radius
\* is not above rmin or nmax is not positive no iteration runs and the start
\* centre is returned.
C27_ShrinkSchedule ==
    InDensity =>
        /\ \A k \in DOMAIN steps :
              /\ QLess(QMul(fc.rmin, fc.rmin), steps[k].rlim2)
              /\ steps[k].n < fc.nmax
              /\ steps[k].n = k - 1
              /\ steps[k].rlim2 = QMul(InitialLocals.rlim2, ShrinkFactor2(k - 1))
              /\ k > 1 => steps[k].rlim2 = QMul(steps[k - 1].rlim2, <<16, 25>>)
        /\ ( \/ ~ QLess(QMul(fc.rmin, fc.rmin), InitialLocals.rlim2)
             \/ fc.nmax <= 0 )
           => (steps = <<>> /\ (fpc = "returned" => ret = StartOfCentre(fc)))

C27_Witness ==
    /\ InDensity
    /\ fpc = "returned"
    /\ Len(steps) = 2
    /\ steps[1].applied
    /\ steps[2].applied
    /\ steps[2].n = 1
    /\ steps[2].rlim2 = QMul(steps[1].rlim2, <<16, 25>>)
    /\ QLess(Q(0), steps[2].rlim2)

\* The sigma-clipped mode of find_centre is running or has returned.
InSigma ==
    /\ fc.fn = "find_centre"
    /\ ~ fc.density
    /\ fpc \in {"sigma", "sigma_exit", "returned"}

Ids(i_d) == {i_d[j] : j \in DOMAIN i_d}
\* The ids of the subset the call was given.
InputIds == Ids(SigmaLocals(cluster, fc).i_d)
\* Row k of the cluster holds stars whose id is in i_d.
Chosen(k) == cluster.id[k] \in Ids(loc.i_d)
\* The number of stars whose id is in i_d, and their total mass.
Members == SeqSum([k \in DOMAIN cluster.id |-> IF Chosen(k) THEN cluster.cnt[k] ELSE 0])
ChosenMass ==
    QSum([k \in DOMAIN cluster.id |->
            IF Chosen(k) THEN QMul(Q(cluster.cnt[k]), cluster.m[k]) ELSE Q(0)])
\* The sum of mass times coordinate i over those stars.
ChosenMoment(i) ==
    QSum([k \in DOMAIN cluster.id |->
            IF Chosen(k)
            THEN QMul(QMul(Q(cluster.cnt[k]), cluster.m[k]), cluster[Coords[i]][k])
            ELSE Q(0)])

SigmaIdsBounded ==
    InSigma =>
        /\ Ids(loc.i_d) \subseteq InputIds
        /\ Ids(loc.i_d) = InputIds \/ Members > fc.nsphere
        /\ Members = StarCount(loc.cnt, AllRows(loc))
        /\ fpc = "returned" =>
              \A i \in 1..6 :
                  IF ChosenMass = Q(0) THEN ret[i] = QNaN
                  ELSE QMul(ret[i], ChosenMass) = ChosenMoment(i)

\* C28: in the sigma-clipped mode of find_centre a pass is applied only if
\* it leaves more than nsphere stars: the ids kept are the whole input subset
\* or a part of it with more than nsphere members, a pass never adds an id,
\* and the centre returned is the mass-weighted mean of the cluster's own
\* coordinates over exactly the stars with those ids.
C28_SigmaClipSubset ==
    /\ []SigmaIdsBounded
    /\ [][(fpc = "sigma" /\ loc' # loc) =>
             /\ Ids(loc'.i_d) \subseteq Ids(loc.i_d)
             /\ StarCount(loc'.cnt, AllRows(loc')) > fc.nsphere]_vars

C28_Witness ==
    /\ InSigma
    /\ fpc = "returned"
    /\ Ids(loc.i_d) # InputIds
    /\ Ids(loc.i_d) # {}
    /\ ChosenMass # Q(0)
    /\ ret # CentreOfAll(cluster, loc.i_d)

----------------------------------------------------------------------------
\* Further properties of energies and virial_radius_inverse_distance.

\* Row k of the cluster as the call sees it: z is taken as 0 when projected.
StarRow(k) ==
    <<cluster.x[k], cluster.y[k], IF call.projected THEN 0 ELSE cluster.z[k],
      cluster.m[k]>>

PositiveMasses == \A k \in 1..cluster.ntot : cluster.m[k] > 0
DistinctStars ==
    \A i, j \in 1..cluster.ntot :
        i # j => distance(StarRow(i), StarRow(j)) # 0

\* -G * sum over j # i of m_j / r_ij when specific, and of m_i * m_j / r_ij
\* otherwise, in units of 1/Scale.
PotentialOf(i) ==
    Fin(0 - grav * SeqSum([j \in 1..cluster.ntot |->
                   IF j = i THEN 0
                   ELSE ((IF call.specific THEN cluster.m[j]
                          ELSE cluster.m[i] * cluster.m[j]) * Scale)
                        \div distance(StarRow(i), StarRow(j))]))

\* C30: on a cluster with positive masses and pairwise distinct positions a
\* call of energies with the sequential pair kernel (full=True), with the
\* loop over the stars (full=False) or with i_d given returns without
\* raising, and the potential of each star is -G * sum m_j / r_ij when
\* specific and -G * sum m_i * m_j / r_ij otherwise, on every path.
C30_PathsAgree ==
    ( /\ call.fn = "energies"
      /\ ~ call.parallel
      /\ pc \in {"done", "raised"}
      /\ PositiveMasses
      /\ DistinctStars )
    => /\ pc = "done"
       /\ epot = IF call.i_d # NoStar THEN PotentialOf(call.i_d)
                 ELSE [i \in 1..cluster.ntot |-> PotentialOf(i)]

\* The positions (x, y, z) of the stars are pairwise distinct.
DistinctPositions ==
    \A i, j \in 1..cluster.ntot :
        i # j => <<cluster.x[i], cluster.y[i], cluster.z[i]>>
                    # <<cluster.x[j], cluster.y[j], cluster.z[j]>>

\* The sum over the unordered pairs i < j of m_i * m_j / distance(i, j), in
\* units of 1/Scale; the distance is the projected one in projected mode.
InversePairSum ==
    NpSum([q \in 1..(cluster.ntot * cluster.ntot) |->
             LET i == ((q - 1) \div cluster.ntot) + 1
                 j == ((q - 1) % cluster.ntot) + 1
             IN  IF i < j
                 THEN NpDivide(cluster.m[i] * cluster.m[j] * Scale,
                               distance(StarRow(i), StarRow(j)))
                 ELSE Fin(0)])

\* The fraction f.num / f.den is (sum of the masses) ** 2 / (2 * ps).
IsVirialOf(f, ps) ==
    CASE ps.k = "nan" -> f.k = "nan"
      [] ps.k = "inf" -> f.k = "fin" /\ f.num = 0
      [] ps.k = "fin" /\ ps.v = 0 ->
            f.k = IF SeqSum(cluster.m) = 0 THEN "nan" ELSE "inf"
      [] OTHER ->
            /\ f.k = "fin"
            /\ f.num * 2 * ps.v = f.den * SeqSum(cluster.m) * SeqSum(cluster.m) * Scale

\* C25: for stars at pairwise distinct positions virial_radius_inverse_distance
\* returns (sum of the masses) ** 2 / (2 * sum over the pairs i < j of
\* m_i * m_j / distance(i, j)), with full=True and with full=False alike, in
\* 3D and in projected mode.
C25_VirialClosedForm ==
    ( /\ call.fn = "virial_radius_inverse_distance"
      /\ pc \in {"done", "raised"}
      /\ DistinctPositions )
    => (pc = "done" /\ IsVirialOf(r_v, InversePairSum))

----------------------------------------------------------------------------
\* Calls on clusters that hold a star of negative mass.  No function tests
\* the masses, so the calls are those of Next.
\* Every mass is -1 or 1.
SignedClusters(n) ==
    { [c EXCEPT !.m = g] : c \in Clusters(n), g \in [1..n -> {-1, 1}] }

InitSigned ==
    /\ cluster \in UNION {SignedClusters(n) : n \in 0..MaxN}
    /\ call = NoCall
    /\ pc = "idle"
    /\ x = <<>>
    /\ it = 1
    /\ pot = <<>>
    /\ weighted_sum = 0
    /\ partial_sum = Fin(0)
    /\ visited = EmptyBag
    /\ printed = {}
    /\ wk = IdleWorkers
    /\ writers = <<>>
    /\ epot = <<>>
    /\ r_v = [k |-> "none", num |-> 0, den |-> 1]
    /\ fc = NoCentreCall
    /\ fpc = "idle"
    /\ loc = NoLocals
    /\ steps = <<>>
    /\ ret = <<>>
    /\ first = <<>>
    /\ indx = NoArray

SpecSigned == InitSigned /\ [][Next]_vars

NegativeMass == \E k \in 1..cluster.ntot : cluster.m[k] < 0

\* C24: a cluster with a negative mass is rejected at the boundary: energies
\* and virial_radius_inverse_distance stop with an error before the body of
\* the pair loop runs for any pair, and return no result.
C24_RejectedAtBoundary ==
    NegativeMass =>
        /\ visited = EmptyBag
        /\ pc \notin {"finish", "done"}

====
